---- MODULE Spec2Model ----
(***************************************************************************)
(* Model of mikrotik/apply_switch_config.py: the reconciliation of a       *)
(* RouterOS bridge (bridge ports and bridge VLAN table) against a list of  *)
(* "iface,pvid,ingress_filter,frame_types" lines.                          *)
(*                                                                         *)
(* Python strings are sequences of one-character strings, so that          *)
(* str.split(','), ",".join(..) and str.strip() are computed, not assumed. *)
(* None (a missing dictionary key) is the one-element sequence <<"None">>, *)
(* which no character sequence equals.                                     *)
(***************************************************************************)
EXTENDS Integers, Sequences, FiniteSets, TLC

VARIABLES
    interface_configs, \* device_cfg["interface_configs"]: list of lines
    bridge_port,       \* device: /interface/bridge/port entries, in order
    bridge_vlan,       \* device: /interface/bridge/vlan entries, in order
    vlan_map,          \* ordered dict: sequence of [vlan_id, ifaces]
    pc,                \* position of the run
    i,                 \* index of the next line of the interface pass
    k,                 \* index of the next item of the VLAN pass
    calls,             \* get/add/set calls issued in this run, in order
    disconnects,       \* number of connection.disconnect() calls of this run
    run,               \* number of the run (1 = first invocation)
    nfail,             \* API errors raised so far
    at_start,          \* device state when this run began
    cfg_str,           \* argument of a stand-alone parse_config call
    parsed,            \* its outcome
    entry_arg,         \* argument of a stand-alone get_id call
    id_ret             \* its return value

vars == <<interface_configs, bridge_port, bridge_vlan, vlan_map, pc, i, k,
          calls, disconnects, run, nfail, at_start, cfg_str, parsed,
          entry_arg, id_ret>>

-----------------------------------------------------------------------------
(* Bounds *)

MaxLines == 2        \* lines of interface_configs
MaxFailures == 1     \* API errors in one behaviour
MaxRuns == 2         \* invocations of the script
MaxLineLen == 6      \* length of the argument of a stand-alone parse_config
MaxIdLen == 2        \* length of the '.id' and 'id' values of a stand-alone get_id

-----------------------------------------------------------------------------
(* Python values *)

None == <<"None">>

Comma == ","

Whitespace == {" "}

\* Python truthiness of an optional string: None and '' are falsy.
Truthy(v) == v # None /\ v # <<>>

RECURSIVE split_from(_, _, _)
\* The fields of s from position n on, `field` being the field in progress.
split_from(s, n, field) ==
    IF n > Len(s) THEN <<field>>
    ELSE IF s[n] = Comma THEN <<field>> \o split_from(s, n + 1, <<>>)
    ELSE split_from(s, n + 1, Append(field, s[n]))

\* str.split(','): the fields between the commas; '' gives [''].
split(s) == split_from(s, 1, <<>>)

RECURSIVE strip(_)
\* str.strip(): leading and trailing whitespace removed.
strip(s) ==
    IF s = <<>> THEN s
    ELSE IF s[1] \in Whitespace THEN strip(Tail(s))
    ELSE IF s[Len(s)] \in Whitespace THEN strip(SubSeq(s, 1, Len(s) - 1))
    ELSE s

RECURSIVE array_to_string(_)
\* ",".join(arr)
array_to_string(arr) ==
    IF arr = <<>> THEN <<>>
    ELSE IF Len(arr) = 1 THEN arr[1]
    ELSE arr[1] \o <<Comma>> \o array_to_string(Tail(arr))

\* Variant of parse_config that only rejects too few fields.
parse_config_at_least_4(config_str) ==
    LET parts == split(config_str)
    IN IF Len(parts) < 4
       THEN [ok |-> FALSE,
             error |-> <<"Invalid config string format: ">> \o config_str]
       ELSE [ok |-> TRUE,
             value |-> <<parts[1], parts[2], parts[3], parts[4]>>]

\* Variant of parse_config that takes a missing fourth field as empty.
parse_config_pads_missing(config_str) ==
    LET parts == split(config_str)
    IN IF Len(parts) < 3 \/ Len(parts) > 4
       THEN [ok |-> FALSE,
             error |-> <<"Invalid config string format: ">> \o config_str]
       ELSE [ok |-> TRUE,
             value |-> <<parts[1], parts[2], parts[3],
                         IF Len(parts) = 4 THEN parts[4] ELSE <<>>>>]

\* parse_config: the 4-tuple, or the ValueError with its message.
parse_config(config_str) ==
    LET parts == split(config_str)
    IN IF Len(parts) # 4
       THEN [ok |-> FALSE,
             error |-> <<"Invalid config string format: ">> \o config_str]
       ELSE [ok |-> TRUE,
             value |-> <<parts[1], parts[2], parts[3], parts[4]>>]

\* Variant of get_id that tries 'id' first, then '.id'.
get_id_plain_first(resource_entry) ==
    LET rid == resource_entry.id
    IN IF ~Truthy(rid) THEN resource_entry.dotid ELSE rid

\* get_id: '.id' first, then 'id'; the result may be None or ''.
get_id(resource_entry) ==
    LET rid == resource_entry.dotid
    IN IF ~Truthy(rid) THEN resource_entry.id ELSE rid

-----------------------------------------------------------------------------
(* Stand-alone parse_config *)

ParseChars == {"a", "1", Comma}

ParseInputs == UNION {[1..n -> ParseChars] : n \in 0..MaxLineLen}

NotParsed == [ok |-> FALSE, error |-> <<>>]

\* An entry with neither '.id' nor 'id'.
NoEntry == [dotid |-> None, id |-> None]

ParseInit ==
    /\ cfg_str \in ParseInputs
    /\ parsed = NotParsed
    /\ interface_configs = <<>>
    /\ bridge_port = <<>>
    /\ bridge_vlan = <<>>
    /\ vlan_map = <<>>
    /\ pc = "parse"
    /\ i = 1
    /\ k = 1
    /\ calls = <<>>
    /\ disconnects = 0
    /\ run = 1
    /\ nfail = 0
    /\ at_start = [port |-> <<>>, vlan |-> <<>>]
    /\ entry_arg = NoEntry
    /\ id_ret = None

ParseCall ==
    /\ pc = "parse"
    /\ parsed' = parse_config(cfg_str)
    /\ pc' = "parsed"
    /\ UNCHANGED <<interface_configs, bridge_port, bridge_vlan, vlan_map, i, k,
                   calls, disconnects, run, nfail, at_start, cfg_str,
                   entry_arg, id_ret>>

ParseNext == ParseCall

ParseSpec == ParseInit /\ [][ParseNext]_vars

-----------------------------------------------------------------------------
(* Stand-alone get_id *)

\* The values of the '.id' and 'id' keys: missing, '', or up to MaxIdLen
\* characters.
IdChars == {"*", "1"}

IdValues == {None} \cup UNION {[1..n -> IdChars] : n \in 0..MaxIdLen}

GetIdInit ==
    /\ entry_arg \in [dotid : IdValues, id : IdValues]
    /\ id_ret = None
    /\ cfg_str = <<>>
    /\ parsed = NotParsed
    /\ interface_configs = <<>>
    /\ bridge_port = <<>>
    /\ bridge_vlan = <<>>
    /\ vlan_map = <<>>
    /\ pc = "get_id"
    /\ i = 1
    /\ k = 1
    /\ calls = <<>>
    /\ disconnects = 0
    /\ run = 1
    /\ nfail = 0
    /\ at_start = [port |-> <<>>, vlan |-> <<>>]

GetIdCall ==
    /\ pc = "get_id"
    /\ id_ret' = get_id(entry_arg)
    /\ pc' = "got_id"
    /\ UNCHANGED <<interface_configs, bridge_port, bridge_vlan, vlan_map, i, k,
                   calls, disconnects, run, nfail, at_start, cfg_str, parsed,
                   entry_arg>>

GetIdNext == GetIdCall

GetIdSpec == GetIdInit /\ [][GetIdNext]_vars

-----------------------------------------------------------------------------
(* Inputs of a run *)

Str1(c) == <<c>>

\* device_cfg["bridge_name"]
bridge_name == <<"b", "r", "1">>

OtherBridge == <<"b", "r", "2">>

\* Lines of interface_configs: three well-formed ones (two interfaces, two
\* pvids, interface "a" under both pvids) and a malformed one.
Lines ==
    { array_to_string(<<Str1("a"), Str1("1"), Str1("y"), Str1("f")>>),
      array_to_string(<<Str1("b"), Str1("1"), Str1("n"), Str1("t")>>),
      array_to_string(<<Str1("a"), Str1("2"), Str1("n"), Str1("t")>>),
      array_to_string(<<Str1("b"), Str1("2"), Str1("y")>>) }

-----------------------------------------------------------------------------
(* The device behind the API: two ordered collections of entries.  An      *)
(* entry is the dictionary that get returns; dotid and id are its '.id'    *)
(* and 'id' keys, frame_types, ingress_filtering and vlan_ids its          *)
(* 'frame-types', 'ingress-filtering' and 'vlan-ids' keys.  A key that is  *)
(* missing holds None.                                                     *)

Digit == <<"1", "2", "3", "4", "5", "6", "7", "8", "9">>

\* Identifier of the n-th entry of a collection.
Ident(n) == <<"*", Digit[n]>>

IdKeys(n, idkind) ==
    CASE idkind = "dot"   -> [dotid |-> Ident(n), id |-> None]
      [] idkind = "plain" -> [dotid |-> None, id |-> Ident(n)]
      [] idkind = "none"  -> [dotid |-> None, id |-> None]

\* A bridge-port entry as get returns it; n is its position on the device.
PortEntry(n, bridge, interface, values, idkind) ==
    [bridge |-> bridge, interface |-> interface, pvid |-> values[1],
     frame_types |-> values[2], ingress_filtering |-> values[3]]
    @@ IdKeys(n, idkind)

\* A bridge-vlan entry as get returns it; n is its position on the device.
VlanEntry(n, bridge, vlan_ids, untagged, tagged, idkind) ==
    [bridge |-> bridge, vlan_ids |-> vlan_ids, untagged |-> untagged,
     tagged |-> tagged]
    @@ IdKeys(n, idkind)

OldValues == <<Str1("9"), Str1("o"), Str1("o")>>

SameValues == <<Str1("1"), Str1("f"), Str1("y")>>

\* Bridge-port collections before the first run: empty; an entry to update
\* after one of another bridge and before one of an unnamed interface; a first
\* entry without identifier; two entries of one interface, the first with
\* its identifier under 'id' and already holding the values of a line.
PortScenarios ==
    { <<>>,
      <<PortEntry(1, OtherBridge, Str1("a"), OldValues, "dot"),
        PortEntry(2, bridge_name, Str1("a"), OldValues, "dot"),
        PortEntry(3, bridge_name, Str1("c"), OldValues, "dot")>>,
      <<PortEntry(1, bridge_name, Str1("a"), OldValues, "none"),
        PortEntry(2, bridge_name, Str1("a"), OldValues, "dot")>>,
      <<PortEntry(1, bridge_name, Str1("a"), SameValues, "plain"),
        PortEntry(2, bridge_name, Str1("a"), OldValues, "dot")>> }

\* Bridge-vlan collections before the first run: empty; an entry whose
\* tagged list overlaps the interfaces of the lines, after an entry of
\* another bridge and before one of an unnamed VLAN id; a first entry without
\* identifier; an entry that is tagged and untagged on one interface,
\* with its identifier under 'id', next to one without tagged field and
\* before a second entry of its own VLAN id.
VlanScenarios ==
    { <<>>,
      <<VlanEntry(1, OtherBridge, Str1("1"), <<>>, Str1("a"), "dot"),
        VlanEntry(2, bridge_name, Str1("1"), Str1("c"), <<"a", Comma, "c">>, "dot"),
        VlanEntry(3, bridge_name, Str1("3"), Str1("b"), Str1("a"), "dot")>>,
      <<VlanEntry(1, bridge_name, Str1("1"), <<>>, Str1("a"), "none"),
        VlanEntry(2, bridge_name, Str1("1"), <<>>, Str1("b"), "dot")>>,
      <<VlanEntry(1, bridge_name, Str1("1"), Str1("a"),
                  <<"c", Comma, "a", Comma, "b">>, "plain"),
        VlanEntry(2, bridge_name, Str1("2"), <<>>, None, "dot"),
        VlanEntry(3, bridge_name, Str1("1"), Str1("b"), Str1("d"), "dot")>> }

\* get(**filter): the entries that hold the filter's values, in order.
ResGet(coll, filter) ==
    SelectSeq(coll, LAMBDA e : \A f \in DOMAIN filter : e[f] = filter[f])

\* add(**fields): a new entry with a fresh identifier; unset fields default.
ResAdd(coll, fields, defaults) ==
    Append(coll, fields @@ defaults @@ IdKeys(Len(coll) + 1, "dot"))

\* set(id=rid, **fields): the entry with that identifier takes the fields.
ResSet(coll, rid, fields) ==
    [n \in 1..Len(coll) |->
        IF coll[n].dotid = rid \/ coll[n].id = rid
        THEN fields @@ coll[n]
        ELSE coll[n]]

VlanDefaults == [untagged |-> <<>>, tagged |-> <<>>]

NoDefaults == <<>>

-----------------------------------------------------------------------------
(* apply_switch_config: the interface pass *)

\* Variant of port_get_args that also filters on the desired pvid.
port_get_args_with_pvid(cfg) ==
    [interface |-> cfg[1], bridge |-> bridge_name, pvid |-> cfg[2]]

\* Keyword arguments of bridge_port_res.get
port_get_args(cfg) == [interface |-> cfg[1], bridge |-> bridge_name]

\* Variant of port_set_args that swaps frame-types and ingress-filtering.
port_set_args_swapped(port_id, cfg) ==
    [id |-> port_id, pvid |-> cfg[2], frame_types |-> cfg[3],
     ingress_filtering |-> cfg[4]]

\* Keyword arguments of bridge_port_res.set; cfg is the tuple of parse_config
port_set_args(port_id, cfg) ==
    [id |-> port_id, pvid |-> cfg[2], frame_types |-> cfg[4],
     ingress_filtering |-> cfg[3]]

\* Keyword arguments of bridge_port_res.add
port_add_args(cfg) ==
    [bridge |-> bridge_name, interface |-> cfg[1], pvid |-> cfg[2],
     frame_types |-> cfg[4], ingress_filtering |-> cfg[3]]

\* Variant of PortPlan without the existence check: always create.
PortPlan_always_add(existing) == "add"

\* Variant of PortPlan that creates when the first entry has no identifier.
PortPlan_missing_id_adds(existing) ==
    IF existing # <<>> /\ Truthy(get_id(existing[1])) THEN "set" ELSE "add"

\* What the run does with the result of a successful get: update the first
\* entry, skip the record when that entry has no identifier, or create.
PortPlan(existing) ==
    IF existing # <<>>
    THEN IF ~Truthy(get_id(existing[1])) THEN "skip" ELSE "set"
    ELSE "add"

\* Variant of PortCalls that tries an add after a set that raised.
PortCalls_add_after_failed_set(n, cfg, existing, getok, wok) ==
    LET getcall == [res |-> "port", op |-> "get", args |-> port_get_args(cfg),
                    ok |-> getok, rec |-> n,
                    ret |-> IF getok THEN existing ELSE <<>>]
        setcall == [res |-> "port", op |-> "set",
                    args |-> port_set_args(get_id(existing[1]), cfg),
                    ok |-> wok, rec |-> n, ret |-> <<>>]
        addcall == [res |-> "port", op |-> "add", args |-> port_add_args(cfg),
                    ok |-> wok, rec |-> n, ret |-> <<>>]
        plan == PortPlan(existing)
    IN IF ~getok \/ plan = "skip" THEN <<getcall>>
       ELSE IF plan = "set"
       THEN IF wok THEN <<getcall, setcall>> ELSE <<getcall, setcall, addcall>>
       ELSE <<getcall, addcall>>

\* The calls issued for line n, in order; getok and wok say whether the get
\* and the write return or raise.  An exception ends the try block.
PortCalls(n, cfg, existing, getok, wok) ==
    LET getcall == [res |-> "port", op |-> "get", args |-> port_get_args(cfg),
                    ok |-> getok, rec |-> n,
                    ret |-> IF getok THEN existing ELSE <<>>]
        plan == PortPlan(existing)
    IN IF ~getok \/ plan = "skip" THEN <<getcall>>
       ELSE IF plan = "set"
       THEN <<getcall,
              [res |-> "port", op |-> "set",
               args |-> port_set_args(get_id(existing[1]), cfg),
               ok |-> wok, rec |-> n, ret |-> <<>>]>>
       ELSE <<getcall,
              [res |-> "port", op |-> "add", args |-> port_add_args(cfg),
               ok |-> wok, rec |-> n, ret |-> <<>>]>>

\* Variant of PortEffect that creates the entry when its update raised.
PortEffect_create_on_failed_update(coll, cfg, existing, getok, wok) ==
    LET plan == PortPlan(existing)
    IN IF ~getok \/ plan = "skip" THEN coll
       ELSE IF plan = "set"
       THEN IF wok
            THEN ResSet(coll, get_id(existing[1]),
                        [pvid |-> cfg[2], frame_types |-> cfg[4],
                         ingress_filtering |-> cfg[3]])
            ELSE ResAdd(coll, port_add_args(cfg), NoDefaults)
       ELSE IF wok THEN ResAdd(coll, port_add_args(cfg), NoDefaults) ELSE coll

\* Variant of PortEffect whose update reaches every entry that get returned.
PortEffect_updates_all_returned(coll, cfg, existing, getok, wok) ==
    LET plan == PortPlan(existing)
        ids == {get_id(existing[j]) :
                   j \in {m \in 1..Len(existing) : Truthy(get_id(existing[m]))}}
    IN IF ~getok \/ ~wok \/ plan = "skip" THEN coll
       ELSE IF plan = "set"
       THEN [n \in 1..Len(coll) |->
                IF coll[n].dotid \in ids \/ coll[n].id \in ids
                THEN [pvid |-> cfg[2], frame_types |-> cfg[4],
                      ingress_filtering |-> cfg[3]] @@ coll[n]
                ELSE coll[n]]
       ELSE ResAdd(coll, port_add_args(cfg), NoDefaults)

\* Variant of PortEffect in which an entry keeps the values it has: only
\* the creation writes.
PortEffect_first_writer_wins(coll, cfg, existing, getok, wok) ==
    LET plan == PortPlan(existing)
    IN IF ~getok \/ ~wok \/ plan = "skip" THEN coll
       ELSE IF plan = "set" THEN coll
       ELSE ResAdd(coll, port_add_args(cfg), NoDefaults)

\* The bridge-port collection after the calls of one line.
PortEffect(coll, cfg, existing, getok, wok) ==
    LET plan == PortPlan(existing)
    IN IF ~getok \/ ~wok \/ plan = "skip" THEN coll
       ELSE IF plan = "set"
       THEN ResSet(coll, get_id(existing[1]),
                   [pvid |-> cfg[2], frame_types |-> cfg[4],
                    ingress_filtering |-> cfg[3]])
       ELSE ResAdd(coll, port_add_args(cfg), NoDefaults)

\* Variant of ReachesMapUpdate in which a get that raised skips the map
\* update as the missing identifier does.
ReachesMapUpdate_not_after_failed_get(existing, getok) ==
    getok /\ PortPlan(existing) # "skip"

\* Whether the statement after the try block (the VLAN map update) is
\* reached: an exception is caught, the missing identifier `continue`s.
ReachesMapUpdate(existing, getok) ==
    ~getok \/ PortPlan(existing) # "skip"

\* Variant of MapAppend that starts a new item for every line.
MapAppend_always_new_item(m, pvid, iface) ==
    Append(m, [vlan_id |-> pvid, ifaces |-> <<iface>>])

\* Variant of MapAppend that appends to the first list of the map, if any.
MapAppend_first_list(m, pvid, iface) ==
    IF m # <<>>
    THEN [n \in 1..Len(m) |->
            IF n = 1 THEN [m[n] EXCEPT !.ifaces = Append(@, iface)] ELSE m[n]]
    ELSE Append(m, [vlan_id |-> pvid, ifaces |-> <<iface>>])

\* vlan_map.setdefault(pvid, []).append(iface) on the ordered dict
MapAppend(m, pvid, iface) ==
    IF \E n \in 1..Len(m) : m[n].vlan_id = pvid
    THEN [n \in 1..Len(m) |->
            IF m[n].vlan_id = pvid
            THEN [m[n] EXCEPT !.ifaces = Append(@, iface)]
            ELSE m[n]]
    ELSE Append(m, [vlan_id |-> pvid, ifaces |-> <<iface>>])

\* Variant of AfterRecord that leaves the loop at the first record in error.
AfterRecord_break_on_error(n, last, ok) == IF ok THEN n + 1 ELSE last + 1

\* The index after record n of a loop over `last` records: the exceptions of
\* a record are caught inside the loop body, which goes on with the next.
AfterRecord(n, last, ok) == n + 1

\* No write follows the get: it raised, or the record is skipped.
NoWrite(plan, getok) == ~getok \/ plan = "skip"

\* A call may raise only while the error budget of the behaviour lasts.
Outcomes == IF nfail < MaxFailures THEN {TRUE, FALSE} ELSE {TRUE}

Failures(cs) == Cardinality({n \in 1..Len(cs) : ~cs[n].ok})

Connect ==
    /\ pc = "start"
    /\ pc' = "ports"
    /\ i' = 1
    /\ vlan_map' = <<>>
    /\ UNCHANGED <<interface_configs, bridge_port, bridge_vlan, k, calls,
                   disconnects, run, nfail, at_start, cfg_str, parsed,
                   entry_arg, id_ret>>

\* Variant of ConnectFail in which the failure only shows at the first get.
ConnectFail_at_first_get ==
    /\ pc = "start"
    /\ pc' = "aborted"
    /\ calls' = Append(calls, [res |-> "port", op |-> "get",
                               args |-> [bridge |-> bridge_name], ok |-> FALSE,
                               rec |-> 1, ret |-> <<>>])
    /\ UNCHANGED <<interface_configs, bridge_port, bridge_vlan, vlan_map, i, k,
                   disconnects, run, nfail, at_start, cfg_str, parsed,
                   entry_arg, id_ret>>

ConnectFail ==
    /\ pc = "start"
    /\ pc' = "aborted"
    /\ UNCHANGED <<interface_configs, bridge_port, bridge_vlan, vlan_map, i, k,
                   calls, disconnects, run, nfail, at_start, cfg_str,
                   parsed, entry_arg, id_ret>>

SkipMalformedLine ==
    /\ pc = "ports"
    /\ i <= Len(interface_configs)
    /\ ~parse_config(interface_configs[i]).ok
    /\ i' = AfterRecord(i, Len(interface_configs), FALSE)
    /\ UNCHANGED <<interface_configs, bridge_port, bridge_vlan, vlan_map, pc, k,
                   calls, disconnects, run, nfail, at_start, cfg_str,
                   parsed, entry_arg, id_ret>>

ReconcilePort ==
    /\ pc = "ports"
    /\ i <= Len(interface_configs)
    /\ \E line \in {parse_config(interface_configs[i])} :
         /\ line.ok
         /\ \E existing \in {ResGet(bridge_port, port_get_args(line.value))} :
            \E getok \in Outcomes, wok \in Outcomes :
              LET cfg == line.value
              IN /\ NoWrite(PortPlan(existing), getok) => wok
                 /\ calls' = calls \o PortCalls(i, cfg, existing, getok, wok)
                 /\ nfail' = nfail + (IF getok /\ wok THEN 0 ELSE 1)
                 /\ i' = AfterRecord(i, Len(interface_configs), getok /\ wok)
                 /\ bridge_port' = PortEffect(bridge_port, cfg, existing, getok, wok)
                 /\ vlan_map' = IF ReachesMapUpdate(existing, getok)
                                THEN MapAppend(vlan_map, cfg[2], cfg[1])
                                ELSE vlan_map
    /\ UNCHANGED <<interface_configs, bridge_vlan, pc, k, disconnects, run,
                   at_start, cfg_str, parsed, entry_arg, id_ret>>

\* Variant of LogVlanMap that leaves the interface pass after its first line.
LogVlanMap_after_first_line ==
    /\ pc = "ports"
    /\ i > 1 \/ interface_configs = <<>>
    /\ pc' = "vlans"
    /\ k' = 1
    /\ UNCHANGED <<interface_configs, bridge_port, bridge_vlan, vlan_map, i,
                   calls, disconnects, run, nfail, at_start, cfg_str,
                   parsed, entry_arg, id_ret>>

LogVlanMap ==
    /\ pc = "ports"
    /\ i > Len(interface_configs)
    /\ pc' = "vlans"
    /\ k' = 1
    /\ UNCHANGED <<interface_configs, bridge_port, bridge_vlan, vlan_map, i,
                   calls, disconnects, run, nfail, at_start, cfg_str,
                   parsed, entry_arg, id_ret>>

-----------------------------------------------------------------------------
(* apply_switch_config: the VLAN pass *)

\* Variant of vlan_get_args that forgets the bridge filter.
vlan_get_args_any_bridge(vlan_id) == [vlan_ids |-> vlan_id]

\* Keyword arguments of vlan_res.get
vlan_get_args(vlan_id) == [bridge |-> bridge_name, vlan_ids |-> vlan_id]

\* existing_vlans[0].get('tagged', '')
current_tagged(entry) == IF entry.tagged = None THEN <<>> ELSE entry.tagged

\* current_tagged.split(',') if current_tagged.strip() else []
tagged_array(tagged) == IF strip(tagged) # <<>> THEN split(tagged) ELSE <<>>

\* Variant of new_tagged_array that forgets the filter.
new_tagged_array_unfiltered(tagged_arr, untagged_list) == tagged_arr

\* [t for t in tagged_array if t not in untagged_list]
new_tagged_array(tagged_arr, untagged_list) ==
    SelectSeq(tagged_arr,
              LAMBDA t : ~\E n \in 1..Len(untagged_list) : untagged_list[n] = t)

\* Variant of vlan_set_args that writes the tagged field back as it was read.
vlan_set_args_tagged_as_read(vlan_entry_id, untagged_list, entry) ==
    [id |-> vlan_entry_id,
     untagged |-> array_to_string(untagged_list),
     tagged |-> current_tagged(entry)]

\* Keyword arguments of vlan_res.set
vlan_set_args(vlan_entry_id, untagged_list, entry) ==
    [id |-> vlan_entry_id,
     untagged |-> array_to_string(untagged_list),
     tagged |-> array_to_string(
                    new_tagged_array(tagged_array(current_tagged(entry)),
                                     untagged_list))]

\* Variant of vlan_add_args that also sends an empty tagged field.
vlan_add_args_with_tagged(vlan_id, untagged_list) ==
    [bridge |-> bridge_name, vlan_ids |-> vlan_id,
     untagged |-> array_to_string(untagged_list), tagged |-> <<>>]

\* Keyword arguments of vlan_res.add: no tagged field
vlan_add_args(vlan_id, untagged_list) ==
    [bridge |-> bridge_name, vlan_ids |-> vlan_id,
     untagged |-> array_to_string(untagged_list)]

\* What the run does with the result of a successful get.
VlanPlan(existing_vlans) ==
    IF existing_vlans # <<>>
    THEN IF ~Truthy(get_id(existing_vlans[1])) THEN "skip" ELSE "set"
    ELSE "add"

\* The calls issued for item n of the VLAN map, in order.
VlanCalls(n, vlan_id, untagged_list, existing_vlans, getok, wok) ==
    LET getcall == [res |-> "vlan", op |-> "get", args |-> vlan_get_args(vlan_id),
                    ok |-> getok, rec |-> n,
                    ret |-> IF getok THEN existing_vlans ELSE <<>>]
        plan == VlanPlan(existing_vlans)
    IN IF ~getok \/ plan = "skip" THEN <<getcall>>
       ELSE IF plan = "set"
       THEN <<getcall,
              [res |-> "vlan", op |-> "set",
               args |-> vlan_set_args(get_id(existing_vlans[1]), untagged_list,
                                      existing_vlans[1]),
               ok |-> wok, rec |-> n, ret |-> <<>>]>>
       ELSE <<getcall,
              [res |-> "vlan", op |-> "add",
               args |-> vlan_add_args(vlan_id, untagged_list),
               ok |-> wok, rec |-> n, ret |-> <<>>]>>

\* The bridge-vlan collection after the calls of one VLAN id.
VlanEffect(coll, vlan_id, untagged_list, existing_vlans, getok, wok) ==
    LET plan == VlanPlan(existing_vlans)
    IN IF ~getok \/ ~wok \/ plan = "skip" THEN coll
       ELSE IF plan = "set"
       THEN LET a == vlan_set_args(get_id(existing_vlans[1]), untagged_list,
                                   existing_vlans[1])
            IN ResSet(coll, a.id, [untagged |-> a.untagged, tagged |-> a.tagged])
       ELSE ResAdd(coll, vlan_add_args(vlan_id, untagged_list), VlanDefaults)

ReconcileVlan ==
    /\ pc = "vlans"
    /\ k <= Len(vlan_map)
    /\ \E existing_vlans \in
            {ResGet(bridge_vlan, vlan_get_args(vlan_map[k].vlan_id))} :
         \E getok \in Outcomes, wok \in Outcomes :
            LET vlan_id == vlan_map[k].vlan_id
                untagged_list == vlan_map[k].ifaces
            IN /\ NoWrite(VlanPlan(existing_vlans), getok) => wok
               /\ calls' = calls \o VlanCalls(k, vlan_id, untagged_list,
                                              existing_vlans, getok, wok)
               /\ nfail' = nfail + (IF getok /\ wok THEN 0 ELSE 1)
               /\ k' = AfterRecord(k, Len(vlan_map), getok /\ wok)
               /\ bridge_vlan' = VlanEffect(bridge_vlan, vlan_id, untagged_list,
                                            existing_vlans, getok, wok)
    /\ UNCHANGED <<interface_configs, bridge_port, vlan_map, pc, i, disconnects,
                   run, at_start, cfg_str, parsed, entry_arg, id_ret>>

\* Variant of Disconnect that releases the connection only after a run
\* without API error.
Disconnect_only_clean_run ==
    /\ pc = "vlans"
    /\ k > Len(vlan_map)
    /\ pc' = "done"
    /\ disconnects' = IF Failures(calls) = 0 THEN disconnects + 1 ELSE disconnects
    /\ UNCHANGED <<interface_configs, bridge_port, bridge_vlan, vlan_map, i, k,
                   calls, run, nfail, at_start, cfg_str, parsed,
                   entry_arg, id_ret>>

Disconnect ==
    /\ pc = "vlans"
    /\ k > Len(vlan_map)
    /\ pc' = "done"
    /\ disconnects' = disconnects + 1
    /\ UNCHANGED <<interface_configs, bridge_port, bridge_vlan, vlan_map, i, k,
                   calls, run, nfail, at_start, cfg_str, parsed,
                   entry_arg, id_ret>>

\* The script is invoked again with the same configuration file, after a run
\* that logged no API error and with the device as that run left it.
Rerun ==
    /\ pc = "done"
    /\ Failures(calls) = 0
    /\ run < MaxRuns
    /\ run' = run + 1
    /\ at_start' = [port |-> bridge_port, vlan |-> bridge_vlan]
    /\ pc' = "start"
    /\ i' = 1
    /\ k' = 1
    /\ vlan_map' = <<>>
    /\ calls' = <<>>
    /\ disconnects' = 0
    /\ UNCHANGED <<interface_configs, bridge_port, bridge_vlan, nfail, cfg_str,
                   parsed, entry_arg, id_ret>>

Init ==
    /\ interface_configs \in UNION {[1..n -> Lines] : n \in 0..MaxLines}
    /\ bridge_port \in PortScenarios
    /\ bridge_vlan \in VlanScenarios
    /\ vlan_map = <<>>
    /\ pc = "start"
    /\ i = 1
    /\ k = 1
    /\ calls = <<>>
    /\ disconnects = 0
    /\ run = 1
    /\ nfail = 0
    /\ at_start = [port |-> bridge_port, vlan |-> bridge_vlan]
    /\ cfg_str = <<>>
    /\ parsed = NotParsed
    /\ entry_arg = NoEntry
    /\ id_ret = None

Next ==
    \/ Connect
    \/ ConnectFail
    \/ SkipMalformedLine
    \/ ReconcilePort
    \/ LogVlanMap
    \/ ReconcileVlan
    \/ Disconnect
    \/ Rerun

\* A step of the run in progress.
RunStep ==
    \/ Connect
    \/ ConnectFail
    \/ SkipMalformedLine
    \/ ReconcilePort
    \/ LogVlanMap
    \/ ReconcileVlan
    \/ Disconnect

Spec == Init /\ [][Next]_vars

\* One invocation of the script.  The run is sequential and every API call
\* returns or raises, so a run in progress takes its next step.
FairSpec == Init /\ [][RunStep]_vars /\ WF_vars(RunStep)

-----------------------------------------------------------------------------
(* Vocabulary of the properties *)

Elems(seq) == {seq[n] : n \in 1..Len(seq)}

Positions == 1..Len(calls)

\* The list a device field stands for: missing or empty is the empty list.
ListOfField(f) == IF f = None \/ f = <<>> THEN <<>> ELSE split(f)

RECURSIVE Without(_, _)
\* seq with every element of the set gone, the others in their order.
Without(seq, gone) ==
    IF seq = <<>> THEN <<>>
    ELSE IF Head(seq) \in gone THEN Without(Tail(seq), gone)
    ELSE <<Head(seq)>> \o Without(Tail(seq), gone)

HasIdentifier(e) == (e.dotid # None /\ e.dotid # <<>>) \/ (e.id # None /\ e.id # <<>>)

\* The entries of a collection that a set on identifier rid addresses.
Addressed(coll, rid) == {n \in 1..Len(coll) : coll[n].dotid = rid \/ coll[n].id = rid}

IsCall(p, res, op) == calls[p].res = res /\ calls[p].op = op

\* The get at position p found an entry and its first entry has an identifier.
FoundWithId(p, res) ==
    /\ IsCall(p, res, "get")
    /\ calls[p].ok
    /\ calls[p].ret # <<>>
    /\ HasIdentifier(calls[p].ret[1])

\* The get at position p found an entry and its first entry has no identifier.
FoundWithoutId(p, res) ==
    /\ IsCall(p, res, "get")
    /\ calls[p].ok
    /\ calls[p].ret # <<>>
    /\ ~HasIdentifier(calls[p].ret[1])

-----------------------------------------------------------------------------
(* Properties *)

\* C1: for every VLAN id of the map whose get returned an entry with an
\* identifier, the next call is the set of that VLAN id; it writes untagged =
\* the comma-join of this run's list and tagged = the comma-join of the
\* entry's tagged list (missing or empty: the empty list) without the
\* interfaces of the untagged list, the others in their order; a successful
\* set leaves these two values in the entry.
C1_VlanUpdateWrites ==
    \A p \in Positions :
        FoundWithId(p, "vlan") =>
            /\ p < Len(calls)
            /\ LET w == calls[p + 1]
                   e == calls[p].ret[1]
                   untagged == vlan_map[calls[p].rec].ifaces
               IN /\ IsCall(p + 1, "vlan", "set")
                  /\ w.rec = calls[p].rec
                  /\ w.args.untagged = array_to_string(untagged)
                  /\ w.args.tagged =
                        array_to_string(Without(ListOfField(e.tagged), Elems(untagged)))
                  /\ w.ok => \A n \in Addressed(bridge_vlan, w.args.id) :
                                /\ bridge_vlan[n].untagged = w.args.untagged
                                /\ bridge_vlan[n].tagged = w.args.tagged

\* A set that took "a" out of the tagged list "a,c" and kept "c".
C1_Witness ==
    \E p \in Positions :
        /\ FoundWithId(p, "vlan")
        /\ calls[p].ret[1].tagged = <<"a", Comma, "c">>
        /\ calls[p + 1].ok
        /\ calls[p + 1].args.tagged = Str1("c")
        /\ Str1("a") \in Elems(vlan_map[calls[p].rec].ifaces)

\* The bridge-vlan entries this run wrote: created, or addressed by a
\* successful set.
WrittenVlanEntries ==
    {n \in 1..Len(bridge_vlan) : n > Len(at_start.vlan)}
    \cup UNION {Addressed(bridge_vlan, calls[p].args.id) :
                    p \in {q \in Positions : IsCall(q, "vlan", "set") /\ calls[q].ok}}

\* C2: no bridge-vlan entry written by the run has an interface in both its
\* tagged list and its untagged list, whatever it held before.
C2_NoTaggedAndUntagged ==
    \A n \in WrittenVlanEntries :
        Elems(ListOfField(bridge_vlan[n].tagged))
            \cap Elems(ListOfField(bridge_vlan[n].untagged)) = {}

\* A finished run updated an entry that had "a" both tagged and untagged.
C2_Witness ==
    /\ pc = "done"
    /\ \E p \in Positions :
        /\ FoundWithId(p, "vlan")
        /\ calls[p + 1].ok
        /\ LET e == calls[p].ret[1]
           IN Elems(ListOfField(e.tagged)) \cap Elems(ListOfField(e.untagged)) # {}

\* C3: a run without API error that follows a run without API error (the
\* only runs that Rerun follows) on the
\* same input leaves both collections as they were when it began, that is
\* as the previous run left them.
C3_Idempotent ==
    (run > 1 /\ pc = "done" /\ Failures(calls) = 0) =>
        /\ bridge_port = at_start.port
        /\ bridge_vlan = at_start.vlan

\* A second clean run ended on a device whose only entries the first run
\* created (every non-empty initial collection has two entries or more).
C3_Witness ==
    /\ run = 2
    /\ pc = "done"
    /\ Failures(calls) = 0
    /\ Len(bridge_port) = 1
    /\ Len(bridge_vlan) = 1
    /\ \E p \in Positions : IsCall(p, "port", "set")
    /\ \E p \in Positions : IsCall(p, "vlan", "set")

CommaCount(s) == Cardinality({n \in 1..Len(s) : s[n] = Comma})

\* A line with exactly 4 comma-separated fields.
WellFormed(line) == CommaCount(line) = 3

Field(line, n) == split(line)[n]

\* The interface or the VLAN id that the call at position p is issued for.
KeyOfCall(p) ==
    IF calls[p].res = "port"
    THEN Field(interface_configs[calls[p].rec], 1)
    ELSE vlan_map[calls[p].rec].vlan_id

HasGet(res, n) == \E q \in Positions : IsCall(q, res, "get") /\ calls[q].rec = n

\* Every well-formed line after line n has its bridge-port get.
LaterLinesProcessed(n) ==
    \A j \in (n + 1)..Len(interface_configs) :
        WellFormed(interface_configs[j]) => HasGet("port", j)

\* Every item of the VLAN map after item n has its bridge-vlan get.
LaterVlansProcessed(n) ==
    \A m \in (n + 1)..Len(vlan_map) : HasGet("vlan", m)

\* C4: when the first entry a get returns has no identifier, the run issues
\* no add and no set for that interface (VLAN id), and at the end of the run
\* every later well-formed line and every later VLAN id has had its get.
C4_MissingIdentifier ==
    \A p \in Positions :
        (FoundWithoutId(p, "port") \/ FoundWithoutId(p, "vlan")) =>
            /\ \A q \in Positions :
                  (calls[q].res = calls[p].res /\ KeyOfCall(q) = KeyOfCall(p))
                      => calls[q].op = "get"
            /\ pc = "done" =>
                  IF calls[p].res = "port"
                  THEN LaterLinesProcessed(calls[p].rec) /\ LaterVlansProcessed(0)
                  ELSE LaterVlansProcessed(calls[p].rec)

\* A bridge-port entry without identifier was skipped, a later line was
\* written and the VLAN pass ran.
C4_Witness ==
    /\ pc = "done"
    /\ \E p \in Positions :
        /\ FoundWithoutId(p, "port")
        /\ \E q \in Positions :
              q > p /\ calls[q].res = "port" /\ calls[q].op # "get" /\ calls[q].ok
    /\ \E r \in Positions : IsCall(r, "vlan", "get")

\* The interfaces of the well-formed lines whose pvid is v, in input order.
ExpectedIfaces(v) ==
    LET wf == SelectSeq(interface_configs,
                        LAMBDA l : WellFormed(l) /\ Field(l, 2) = v)
    IN [n \in 1..Len(wf) |-> Field(wf[n], 1)]

MapKeys == {vlan_map[n].vlan_id : n \in 1..Len(vlan_map)}

WellFormedPvids ==
    {Field(interface_configs[n], 2) :
        n \in {m \in 1..Len(interface_configs) : WellFormed(interface_configs[m])}}

\* C5: at the end of the interface pass the VLAN map has exactly the pvids of
\* the well-formed lines as keys, each once, and the list of each key is the
\* sequence of the interfaces of the well-formed lines with that pvid, in
\* input order, whatever happened during the bridge-port reconciliation.
C5_VlanMapOfAllWellFormedLines ==
    pc = "vlans" =>
        /\ MapKeys = WellFormedPvids
        /\ \A n, m \in 1..Len(vlan_map) :
              vlan_map[n].vlan_id = vlan_map[m].vlan_id => n = m
        /\ \A n \in 1..Len(vlan_map) :
              vlan_map[n].ifaces = ExpectedIfaces(vlan_map[n].vlan_id)

NamedInterfaces ==
    {Field(interface_configs[n], 1) :
        n \in {m \in 1..Len(interface_configs) : WellFormed(interface_configs[m])}}

OkCalls(res, op) == {p \in Positions : IsCall(p, res, op) /\ calls[p].ok}

\* A bridge-port entry that no well-formed line names.
UnnamedPort(e) == e.bridge # bridge_name \/ e.interface \notin NamedInterfaces

\* A bridge-vlan entry whose VLAN id is the pvid of no well-formed line.
UnnamedVlan(e) == e.bridge # bridge_name \/ e.vlan_ids \notin WellFormedPvids

\* C6: a run deletes no entry: each collection is what it was when the run
\* began, entry by entry with bridge, key and identifier kept, followed by
\* one entry per successful add; and the entries that the input does not
\* name have all their fields unchanged.
C6_AdditiveOnly ==
    /\ Len(bridge_port) = Len(at_start.port) + Cardinality(OkCalls("port", "add"))
    /\ Len(bridge_vlan) = Len(at_start.vlan) + Cardinality(OkCalls("vlan", "add"))
    /\ \A n \in 1..Len(at_start.port) :
        LET e == at_start.port[n]
            f == bridge_port[n]
        IN /\ <<f.bridge, f.interface, f.dotid, f.id>>
                  = <<e.bridge, e.interface, e.dotid, e.id>>
           /\ UnnamedPort(e) => f = e
    /\ \A n \in 1..Len(at_start.vlan) :
        LET e == at_start.vlan[n]
            f == bridge_vlan[n]
        IN /\ <<f.bridge, f.vlan_ids, f.dotid, f.id>>
                  = <<e.bridge, e.vlan_ids, e.dotid, e.id>>
           /\ UnnamedVlan(e) => f = e

\* A finished run changed both collections next to entries it does not name.
C6_Witness ==
    /\ pc = "done"
    /\ bridge_port # at_start.port
    /\ bridge_vlan # at_start.vlan
    /\ \E n \in 1..Len(at_start.port) : UnnamedPort(at_start.port[n])
    /\ \E n \in 1..Len(at_start.vlan) : UnnamedVlan(at_start.vlan[n])

\* The calls that the step adds to the log.
StepCalls == SubSeq(calls', Len(calls) + 1, Len(calls'))

\* The step processes one record whose get, add or set raised or whose
\* entry has no identifier.
RecordInError ==
    /\ Len(calls') > Len(calls)
    /\ SubSeq(calls', 1, Len(calls)) = calls
    /\ \/ \E n \in 1..Len(StepCalls) : ~StepCalls[n].ok
       \/ /\ Len(StepCalls) = 1
          /\ StepCalls[1].ok
          /\ StepCalls[1].ret # <<>>
          /\ ~HasIdentifier(StepCalls[1].ret[1])

C7_Step ==
    RecordInError =>
        /\ bridge_port' = bridge_port
        /\ bridge_vlan' = bridge_vlan
        /\ \A n \in 1..Len(StepCalls) : ~StepCalls[n].ok => n = Len(StepCalls)

C7_NoRetry ==
    \A p, q \in Positions :
        (p < q /\ ~calls[p].ok)
            => ~(calls[q].res = calls[p].res /\ calls[q].rec = calls[p].rec)

\* C7: the processing of a record whose get, add or set raises, or whose
\* entry has no identifier, leaves both collections as they were before it
\* (no partial effect, no rollback of earlier changes), the call that raised
\* is the last call of that record, and no later call is issued for it.
C7_NoPartialEffectNoRetry == [][C7_Step]_vars /\ []C7_NoRetry

\* A call raised after an earlier record was written, and the run ended
\* with that earlier change on the device.
C7_Witness ==
    /\ pc = "done"
    /\ \E p, q \in Positions :
        p < q /\ calls[p].op # "get" /\ calls[p].ok /\ ~calls[q].ok
    /\ <<bridge_port, bridge_vlan>> # <<at_start.port, at_start.vlan>>

\* C8: a connected run reaches its end, whatever raises and whatever is
\* malformed or without identifier; at its end every well-formed line has
\* had its bridge-port get and every VLAN id of the map its bridge-vlan get.
C8_RunCompletes ==
    /\ (pc = "ports") ~> (pc = "done")
    /\ [](pc = "done" => LaterLinesProcessed(0) /\ LaterVlansProcessed(0))

\* A run ended although a call raised, and a record after it had its get.
C8_Witness ==
    /\ pc = "done"
    /\ \E p, q \in Positions :
        /\ p < q
        /\ ~calls[p].ok
        /\ calls[q].res = calls[p].res
        /\ calls[q].op = "get"

\* C9: parse_config succeeds exactly on the lines with 3 commas, then
\* returns 4 comma-free fields whose comma-join is the line (empty fields
\* included); otherwise its error message ends with the line.
C9_ParseConfig ==
    pc = "parsed" =>
        /\ parsed.ok <=> CommaCount(cfg_str) = 3
        /\ parsed.ok =>
              /\ Len(parsed.value) = 4
              /\ \A n \in 1..4 : CommaCount(parsed.value[n]) = 0
              /\ array_to_string(parsed.value) = cfg_str
        /\ ~parsed.ok =>
              /\ Len(parsed.error) > Len(cfg_str)
              /\ SubSeq(parsed.error, Len(parsed.error) - Len(cfg_str) + 1,
                        Len(parsed.error)) = cfg_str

\* A line with empty first and third fields was accepted.
C9_Witness ==
    /\ pc = "parsed"
    /\ parsed.ok
    /\ parsed.value[1] = <<>>
    /\ parsed.value[2] # <<>>
    /\ parsed.value[3] = <<>>

C10_Step ==
    (pc = "ports" /\ i <= Len(interface_configs)
        /\ ~WellFormed(interface_configs[i]))
    => /\ calls' = calls
       /\ vlan_map' = vlan_map
       /\ bridge_port' = bridge_port
       /\ bridge_vlan' = bridge_vlan
       /\ pc' = "ports"
       /\ i' = i + 1

\* C10: the step at a malformed line issues no call, leaves the VLAN map
\* and the device alone and moves to the next line.
C10_MalformedLineSkipped == [][C10_Step]_vars

\* A run ended whose first line is malformed and got no call, and whose
\* second line was processed.
C10_Witness ==
    /\ pc = "done"
    /\ Len(interface_configs) = 2
    /\ ~WellFormed(interface_configs[1])
    /\ WellFormed(interface_configs[2])
    /\ \A p \in Positions : calls[p].res = "port" => calls[p].rec = 2
    /\ HasGet("port", 2)
    /\ Len(vlan_map) = 1

\* The identifier of an entry: its '.id' unless missing or empty, then 'id'.
IdentifierOf(e) == IF e.dotid # None /\ e.dotid # <<>> THEN e.dotid ELSE e.id

RECURSIVE SplitAll(_)
\* The lists of comma-separated fields of the lines of a list.
SplitAll(lines) ==
    IF lines = <<>> THEN <<>>
    ELSE <<split(Head(lines))>> \o SplitAll(Tail(lines))

\* The comma-separated fields of every line of the input.
Cfgs == SplitAll(interface_configs)

\* The well-formed lines of the input cfgs, by number.
WellFormedLines(cfgs) == {n \in 1..Len(cfgs) : Len(cfgs[n]) = 4}

\* The interfaces that the well-formed lines name.
Named(cfgs) == {cfgs[n][1] : n \in WellFormedLines(cfgs)}

\* The values that line n asks for on its bridge port.
Desired(cfgs, n) ==
    [pvid |-> cfgs[n][2], frame_types |-> cfgs[n][4],
     ingress_filtering |-> cfgs[n][3]]

\* The successful adds and sets on the bridge port of interface iface.
PortWritesFor(cfgs, iface) ==
    {p \in Positions : /\ calls[p].res = "port"
                       /\ calls[p].op # "get"
                       /\ calls[p].ok
                       /\ cfgs[calls[p].rec][1] = iface}

\* The device's entries of (bridge_name, iface), in order.
PortEntriesOf(iface) ==
    SelectSeq(bridge_port,
              LAMBDA e : e.bridge = bridge_name /\ e.interface = iface)

\* Entry e holds the values want.
Holds(e, want) == [f \in DOMAIN want |-> e[f]] = want

\* C11: a bridge-port get that returns no entry is followed by the add of
\* that line with bridge, interface, pvid, frame-types and ingress-filtering;
\* one whose first entry has an identifier is followed by the set on that
\* identifier with the line's pvid, frame-types and ingress-filtering,
\* whatever the entry holds; and after a successful add or set, until the
\* next one for the same interface, the first entry of (bridge, interface)
\* and every entry the set addressed hold the line's three values.
C11_PortUpsert ==
    LET cfgs == Cfgs
    IN /\ \A p \in Positions :
            (IsCall(p, "port", "get") /\ calls[p].ok) =>
                LET n == calls[p].rec
                IN /\ calls[p].ret = <<>> =>
                        /\ p < Len(calls)
                        /\ IsCall(p + 1, "port", "add")
                        /\ calls[p + 1].rec = n
                        /\ calls[p + 1].args =
                              [bridge |-> bridge_name, interface |-> cfgs[n][1]]
                                  @@ Desired(cfgs, n)
                   /\ FoundWithId(p, "port") =>
                        /\ p < Len(calls)
                        /\ IsCall(p + 1, "port", "set")
                        /\ calls[p + 1].rec = n
                        /\ calls[p + 1].args =
                              [id |-> IdentifierOf(calls[p].ret[1])]
                                  @@ Desired(cfgs, n)
       /\ \A x \in Named(cfgs) :
            LET ws == PortWritesFor(cfgs, x)
            IN \A q \in ws :
                  (\A r \in ws : r <= q) =>
                      LET es == PortEntriesOf(x)
                          want == Desired(cfgs, calls[q].rec)
                      IN /\ es # <<>>
                         /\ Holds(es[1], want)
                         /\ calls[q].op = "set" =>
                              \A m \in Addressed(bridge_port, calls[q].args.id) :
                                  Holds(bridge_port[m], want)

\* A finished run created the port of one line and set the port of another
\* whose entry already held the line's values.
C11_Witness ==
    /\ pc = "done"
    /\ \E p \in Positions : IsCall(p, "port", "add") /\ calls[p].ok
    /\ \E p \in Positions :
          /\ FoundWithId(p, "port")
          /\ calls[p + 1].ok
          /\ Holds(calls[p].ret[1], Desired(Cfgs, calls[p].rec))

\* The calls with operation op issued for VLAN id v.
VlanCallsOf(v, op) ==
    {q \in Positions : IsCall(q, "vlan", op) /\ KeyOfCall(q) = v}

\* C12: a bridge-vlan get that returns no entry is followed by the add of
\* that VLAN id, whose arguments are bridge, vlan-ids = the id and untagged
\* = the comma-join of the map's list and nothing else (no tagged field);
\* it is the only add issued for that VLAN id, and no set is issued for it.
C12_VlanCreation ==
    \A p \in Positions :
        (IsCall(p, "vlan", "get") /\ calls[p].ok /\ calls[p].ret = <<>>) =>
            LET item == vlan_map[calls[p].rec]
            IN /\ p < Len(calls)
               /\ IsCall(p + 1, "vlan", "add")
               /\ calls[p + 1].rec = calls[p].rec
               /\ DOMAIN calls[p + 1].args = {"bridge", "vlan_ids", "untagged"}
               /\ calls[p + 1].args.bridge = bridge_name
               /\ calls[p + 1].args.vlan_ids = item.vlan_id
               /\ calls[p + 1].args.untagged = array_to_string(item.ifaces)
               /\ VlanCallsOf(item.vlan_id, "add") = {p + 1}
               /\ VlanCallsOf(item.vlan_id, "set") = {}

\* A finished run created one VLAN entry, whose untagged list is the
\* comma-join of two interfaces.
C12_Witness ==
    /\ pc = "done"
    /\ \E p \in Positions :
          /\ IsCall(p, "vlan", "add")
          /\ calls[p].ok
          /\ Len(vlan_map[calls[p].rec].ifaces) = 2
          /\ CommaCount(calls[p].args.untagged) = 1
    /\ Len(bridge_vlan) = Len(at_start.vlan) + 1

\* The run returned at the failed connection: no line was consumed, no call
\* was issued, the map is empty and the device is as the run found it.
C13_NothingDone ==
    pc = "aborted" =>
        /\ i = 1
        /\ calls = <<>>
        /\ vlan_map = <<>>
        /\ bridge_port = at_start.port
        /\ bridge_vlan = at_start.vlan

\* C13: a run whose connection attempt fails has parsed no line and issued
\* no get, add or set, the device is unchanged, and the run takes no
\* further step.
C13_ConnectionFailureFatal == []C13_NothingDone /\ [][pc # "aborted"]_vars

\* The connection failed for a run with two well-formed lines and a device
\* that has entries to update.
C13_Witness ==
    /\ pc = "aborted"
    /\ Len(interface_configs) = 2
    /\ \A n \in 1..2 : WellFormed(interface_configs[n])
    /\ bridge_port # <<>>
    /\ bridge_vlan # <<>>

\* The successful or failed add and set calls on the bridge-vlan collection.
VlanWrites == {p \in Positions : calls[p].res = "vlan" /\ calls[p].op # "get"}

\* The pvids of the well-formed lines that name interface x.
PvidsOf(cfgs, x) ==
    {cfgs[n][2] : n \in {m \in WellFormedLines(cfgs) : cfgs[m][1] = x}}

\* The VLAN ids under which the map lists interface x.
MapIdsOf(x) ==
    {vlan_map[n].vlan_id :
        n \in {m \in 1..Len(vlan_map) : x \in Elems(vlan_map[m].ifaces)}}

\* The VLAN ids for which the run sent an untagged list with interface x.
WrittenIdsOf(x) ==
    {vlan_map[calls[p].rec].vlan_id :
        p \in {q \in VlanWrites :
                  x \in Elems(ListOfField(calls[q].args.untagged))}}

\* C14 as stated: in the VLAN map and in the untagged lists that the run
\* sends to the device, an interface name appears under one VLAN id only,
\* also when several lines name the interface.
C14_OneVlanPerInterface ==
    \A x \in Named(Cfgs) :
        /\ Cardinality(MapIdsOf(x)) <= 1
        /\ Cardinality(WrittenIdsOf(x)) <= 1

\* C14, amended: the map and the untagged lists sent to the device list
\* only interfaces that well-formed lines name, and list an interface only
\* under VLAN ids that are the pvid of a well-formed line naming it, each
\* VLAN id being one key of the map; so an interface whose lines all have
\* one pvid is listed under that VLAN id at most, and one named with
\* several pvids may be listed under each of them.
C14_UntaggedUnderOwnPvidsOnly ==
    LET cfgs == Cfgs
        named == Named(cfgs)
    IN /\ \A n, m \in 1..Len(vlan_map) :
            vlan_map[n].vlan_id = vlan_map[m].vlan_id => n = m
       /\ \A n \in 1..Len(vlan_map) : Elems(vlan_map[n].ifaces) \subseteq named
       /\ \A p \in VlanWrites :
            Elems(ListOfField(calls[p].args.untagged)) \subseteq named
       /\ \A x \in named :
            LET own == PvidsOf(cfgs, x)
            IN /\ MapIdsOf(x) \subseteq own
               /\ WrittenIdsOf(x) \subseteq own
               /\ Cardinality(own) = 1 =>
                     Cardinality(MapIdsOf(x) \cup WrittenIdsOf(x)) <= 1

\* A finished run whose two lines name one interface with two pvids wrote
\* that interface into the untagged lists of both VLAN ids.
C14_Witness ==
    /\ pc = "done"
    /\ \E x \in Named(Cfgs) :
          /\ Cardinality(PvidsOf(Cfgs, x)) = 2
          /\ MapIdsOf(x) = PvidsOf(Cfgs, x)
          /\ WrittenIdsOf(x) = PvidsOf(Cfgs, x)
          /\ \A p \in VlanWrites : calls[p].ok

\* The connection has been released once exactly when the run is at its
\* end, and not at all before or after a failed connection attempt.
C15_ReleasedAtEnd == disconnects = (IF pc = "done" THEN 1 ELSE 0)

\* C15: a run that established the connection reaches its end and has then
\* disconnected exactly once, whatever was malformed, without identifier or
\* raised; it issues no call once it has disconnected; a run whose
\* connection attempt failed never disconnects.
C15_ConnectionRelease ==
    /\ (pc = "ports") ~> (pc = "done" /\ disconnects = 1)
    /\ []C15_ReleasedAtEnd
    /\ [][disconnects = 1 => calls' = calls]_vars

\* A run disconnected once after a malformed line, a call that raised and
\* an entry without identifier.
C15_Witness ==
    /\ pc = "done"
    /\ disconnects = 1
    /\ \E n \in 1..Len(interface_configs) : ~WellFormed(interface_configs[n])
    /\ \E p \in Positions : ~calls[p].ok
    /\ \E p \in Positions : FoundWithoutId(p, "port") \/ FoundWithoutId(p, "vlan")

\* C16: in the call log of a run no call on the bridge-port collection
\* comes after a call on the bridge-vlan collection, the bridge-port calls
\* follow the order of the input lines and the bridge-vlan calls the order
\* of the map (from each call to the next the record number never
\* decreases), and once a bridge-vlan call is issued every well-formed line
\* has had its bridge-port get.
C16_PassesSequential ==
    /\ \A p \in 1..(Len(calls) - 1) :
          /\ calls[p].res = "vlan" => calls[p + 1].res = "vlan"
          /\ calls[p].res = calls[p + 1].res => calls[p].rec <= calls[p + 1].rec
    /\ (\E q \in Positions : calls[q].res = "vlan") => LaterLinesProcessed(0)

\* A finished run issued bridge-port calls for two lines and bridge-vlan
\* calls for two VLAN ids.
C16_Witness ==
    /\ pc = "done"
    /\ \A n \in 1..2 :
          /\ \E p \in Positions : calls[p].res = "port" /\ calls[p].rec = n
          /\ \E p \in Positions : calls[p].res = "vlan" /\ calls[p].rec = n

\* The positions of the bridge-port calls of line n: its gets, its writes.
PortGetsOf(n) == {p \in Positions : IsCall(p, "port", "get") /\ calls[p].rec = n}

PortWritesOf(n) ==
    {p \in Positions : calls[p].res = "port" /\ calls[p].op # "get" /\ calls[p].rec = n}

\* The interface pass has gone past line n.
Processed(n) == n \in 1..Len(interface_configs) /\ n < i

\* C17 as stated: every processed well-formed line has exactly one get and
\* exactly one write after it, a set when the get found an entry and an add
\* when it found none.
C17_OneReadOneWrite ==
    \A n \in 1..Len(interface_configs) :
        (Processed(n) /\ WellFormed(interface_configs[n])) =>
            /\ Cardinality(PortGetsOf(n)) = 1
            /\ Cardinality(PortWritesOf(n)) = 1
            /\ \A g \in PortGetsOf(n), w \in PortWritesOf(n) :
                  /\ g < w
                  /\ calls[w].op = (IF calls[g].ret # <<>> THEN "set" ELSE "add")

\* C17, amended: every processed well-formed line has exactly one get and
\* at most one write; it has its one write, right after the get, exactly
\* when the get returned and its first entry, if any, has an identifier: a
\* set when an entry was found, an add when none was.  A get that raised or
\* found an entry without identifier is followed by no write.  A malformed
\* line has no call.
C17_OneReadAtMostOneWrite ==
    \A n \in 1..Len(interface_configs) :
        Processed(n) =>
            IF WellFormed(interface_configs[n])
            THEN /\ Cardinality(PortGetsOf(n)) = 1
                 /\ \A g \in PortGetsOf(n) :
                      IF calls[g].ok /\ (calls[g].ret = <<>> \/ FoundWithId(g, "port"))
                      THEN /\ PortWritesOf(n) = {g + 1}
                           /\ calls[g + 1].op =
                                 (IF calls[g].ret # <<>> THEN "set" ELSE "add")
                      ELSE PortWritesOf(n) = {}
            ELSE PortGetsOf(n) \cup PortWritesOf(n) = {}

\* A finished run read an entry without identifier for its first line and
\* wrote nothing for it, and read and created the port of its second line.
C17_Witness ==
    /\ pc = "done"
    /\ \E g \in PortGetsOf(1) : FoundWithoutId(g, "port")
    /\ PortWritesOf(1) = {}
    /\ \E w \in PortWritesOf(2) : calls[w].op = "add" /\ calls[w].ok

\* A value of a dictionary key that is there and is not ''.
Present(v) == v # None /\ v # <<>>

\* C18: get_id returns the '.id' value when it is present and non-empty
\* (whatever 'id' holds), otherwise the 'id' value when that is present and
\* non-empty (also when '.id' is ''), otherwise a value that is no
\* identifier (None or '').
C18_GetId ==
    pc = "got_id" =>
        /\ Present(entry_arg.dotid) => id_ret = entry_arg.dotid
        /\ (~Present(entry_arg.dotid) /\ Present(entry_arg.id))
              => id_ret = entry_arg.id
        /\ (~Present(entry_arg.dotid) /\ ~Present(entry_arg.id))
              => ~Present(id_ret)

\* get_id returned the 'id' value of an entry whose '.id' is ''.
C18_Witness ==
    /\ pc = "got_id"
    /\ entry_arg.dotid = <<>>
    /\ Present(entry_arg.id)
    /\ id_ret = entry_arg.id

\* The lines whose bridge-port get found an entry without identifier.
SkippedForIdentifier ==
    {calls[p].rec : p \in {q \in Positions : FoundWithoutId(q, "port")}}

\* The lines one of whose bridge-port calls raised.
SkippedForApiError ==
    {calls[p].rec : p \in {q \in Positions : calls[q].res = "port" /\ ~calls[q].ok}}

\* The well-formed lines that were not skipped for a missing identifier.
Appended(cfgs) == WellFormedLines(cfgs) \ SkippedForIdentifier

RECURSIVE IfacesOf(_, _, _, _)
\* The interfaces of the lines of the set ns, from line n on, that have pvid
\* v, in input order.
IfacesOf(cfgs, ns, n, v) ==
    IF n > Len(cfgs) THEN <<>>
    ELSE (IF n \in ns /\ cfgs[n][2] = v THEN <<cfgs[n][1]>> ELSE <<>>)
             \o IfacesOf(cfgs, ns, n + 1, v)

\* C19: after the interface pass the VLAN map lists, under each pvid, the
\* interfaces of the well-formed lines with that pvid except those
\* whose bridge-port entry had no identifier, in input order.  So a line
\* whose get, add or set raised is in the list of its pvid and in every
\* untagged list sent for that VLAN id; a line skipped for a missing
\* identifier adds nothing to the map, and a VLAN id that only such lines
\* name is no key of the map and gets no bridge-vlan call.
C19_SkipPathsDiffer ==
    pc \in {"vlans", "done"} =>
        LET cfgs == Cfgs
            app == Appended(cfgs)
            pvids == {cfgs[n][2] : n \in app}
        IN /\ MapKeys = pvids
           /\ \A n \in 1..Len(vlan_map) :
                vlan_map[n].ifaces = IfacesOf(cfgs, app, 1, vlan_map[n].vlan_id)
           /\ \A n \in SkippedForApiError :
                /\ n \in app
                /\ cfgs[n][2] \in MapIdsOf(cfgs[n][1])
                /\ \A p \in VlanWrites :
                      vlan_map[calls[p].rec].vlan_id = cfgs[n][2] =>
                          cfgs[n][1] \in Elems(ListOfField(calls[p].args.untagged))
           /\ \A p \in VlanWrites :
                calls[p].args.untagged =
                    array_to_string(vlan_map[calls[p].rec].ifaces)
           /\ \A q \in Positions :
                calls[q].res = "vlan" => vlan_map[calls[q].rec].vlan_id \in pvids

\* A finished run skipped its first line for a missing identifier and
\* never reconciled that line's VLAN id, while its second line, whose
\* bridge-port call raised, is in the untagged list written for its pvid.
C19_Witness ==
    /\ pc = "done"
    /\ Len(interface_configs) = 2
    /\ 1 \in SkippedForIdentifier
    /\ Cfgs[1][2] \notin MapKeys
    /\ 2 \in SkippedForApiError
    /\ \E p \in VlanWrites :
          /\ calls[p].ok
          /\ vlan_map[calls[p].rec].vlan_id = Cfgs[2][2]
          /\ Cfgs[2][1] \in Elems(ListOfField(calls[p].args.untagged))

\* At most one bridge-port entry per (bridge, interface).
UniquePortKeys(coll) ==
    \A n, m \in 1..Len(coll) :
        (coll[n].bridge = coll[m].bridge /\ coll[n].interface = coll[m].interface)
            => n = m

\* At most one bridge-vlan entry per (bridge, vlan id).
UniqueVlanKeys(coll) ==
    \A n, m \in 1..Len(coll) :
        (coll[n].bridge = coll[m].bridge /\ coll[n].vlan_ids = coll[m].vlan_ids)
            => n = m

\* The adds issued for the bridge port of interface x.
PortAddsOf(cfgs, x) ==
    {p \in Positions : IsCall(p, "port", "add") /\ cfgs[calls[p].rec][1] = x}

\* C20 as stated: a run on a device with at most one entry per key leaves
\* at most one entry per key, and issues at most one add per interface and
\* at most one add per VLAN id.
C20_AtMostOneAdd ==
    (UniquePortKeys(at_start.port) /\ UniqueVlanKeys(at_start.vlan)) =>
        /\ UniquePortKeys(bridge_port)
        /\ UniqueVlanKeys(bridge_vlan)
        /\ \A x \in Named(Cfgs) : Cardinality(PortAddsOf(Cfgs, x)) <= 1
        /\ \A v \in MapKeys : Cardinality(VlanCallsOf(v, "add")) <= 1

\* C20, amended: a collection that has at most one entry per key when the
\* run begins has at most one entry per key during and after the run; at
\* most one add per interface returns, and an add is issued again for an
\* interface only when every earlier add for it raised; at most one add is
\* issued per VLAN id.
C20_NoDuplicateEntries ==
    LET cfgs == Cfgs
    IN /\ UniquePortKeys(at_start.port) => UniquePortKeys(bridge_port)
       /\ UniqueVlanKeys(at_start.vlan) => UniqueVlanKeys(bridge_vlan)
       /\ \A x \in Named(cfgs) :
            \A p, q \in PortAddsOf(cfgs, x) : p < q => ~calls[p].ok
       /\ \A v \in MapKeys : Cardinality(VlanCallsOf(v, "add")) <= 1

\* A finished run on a device without duplicate keys, whose two lines name
\* one interface: the first line created the port, the second updated it.
C20_Witness ==
    /\ pc = "done"
    /\ UniquePortKeys(at_start.port)
    /\ UniqueVlanKeys(at_start.vlan)
    /\ Len(interface_configs) = 2
    /\ \E x \in Named(Cfgs) :
          /\ \E p \in PortAddsOf(Cfgs, x) : calls[p].ok /\ calls[p].rec = 1
          /\ \E q \in Positions :
                IsCall(q, "port", "set") /\ Cfgs[calls[q].rec][1] = x
                    /\ calls[q].rec = 2
    /\ \E v \in MapKeys : VlanCallsOf(v, "add") # {}

\* The positions of the entries of coll that a get with these arguments
\* returns.
Matching(coll, args) ==
    {n \in 1..Len(coll) : \A f \in DOMAIN args : coll[n][f] = args[f]}

\* The least element of a non-empty set of numbers.
Least(S) == CHOOSE n \in S : \A m \in S : n <= m

\* The fields that a set call writes.
Written(args) == [f \in DOMAIN args \ {"id"} |-> args[f]]

\* The step processes a record whose get returned several entries.
SeveralReturned ==
    /\ Len(calls') > Len(calls)
    /\ SubSeq(calls', 1, Len(calls)) = calls
    /\ StepCalls[1].op = "get"
    /\ StepCalls[1].ok
    /\ Len(StepCalls[1].ret) > 1

C21_Step ==
    SeveralReturned =>
        LET g == StepCalls[1]
            coll == IF g.res = "port" THEN bridge_port ELSE bridge_vlan
            after == IF g.res = "port" THEN bridge_port' ELSE bridge_vlan'
            first == Least(Matching(coll, g.args))
        IN /\ coll[first] = g.ret[1]
           /\ Len(after) = Len(coll)
           /\ \A n \in 1..Len(coll) : n # first => after[n] = coll[n]
           /\ \A n \in 2..Len(StepCalls) :
                LET w == StepCalls[n]
                IN /\ w.op = "set"
                   /\ w.args.id = IdentifierOf(g.ret[1])
                   /\ g.res = "vlan" =>
                        w.args.tagged = array_to_string(
                            Without(ListOfField(g.ret[1].tagged),
                                    Elems(vlan_map[w.rec].ifaces)))
                   /\ w.ok => Holds(after[first], Written(w.args))
           /\ (g.res = "port" => bridge_vlan' = bridge_vlan)
           /\ (g.res = "vlan" => bridge_port' = bridge_port)

\* C21: in a step whose get returns several entries, the only write is a
\* set on the identifier of the first returned entry, the tagged list it
\* sends is computed from the tagged field of that first entry, a set that
\* returns leaves its values in that entry, and every other entry of the
\* device, the other returned entries included, is left as it was.
C21_OnlyFirstReturnedEntry == [][C21_Step]_vars

\* A finished run updated the first of two bridge-port entries of one
\* interface and the first of two bridge-vlan entries of one VLAN id; the
\* second entries are as the run found them, and the tagged list written
\* is the first entry's without the untagged interface.
C21_Witness ==
    /\ pc = "done"
    /\ run = 1
    /\ \E p \in Positions :
          /\ FoundWithId(p, "port")
          /\ Len(calls[p].ret) = 2
          /\ calls[p + 1].ok
          /\ \E n \in 1..Len(bridge_port) : bridge_port[n] = calls[p].ret[2]
          /\ \A n \in 1..Len(bridge_port) : bridge_port[n] # calls[p].ret[1]
    /\ \E p \in Positions :
          /\ FoundWithId(p, "vlan")
          /\ Len(calls[p].ret) = 2
          /\ calls[p + 1].ok
          /\ calls[p].ret[1].tagged = <<"c", Comma, "a", Comma, "b">>
          /\ calls[p].ret[2].tagged = Str1("d")
          /\ calls[p + 1].args.tagged = <<"c", Comma, "b">>
          /\ \E n \in 1..Len(bridge_vlan) : bridge_vlan[n] = calls[p].ret[2]

RECURSIVE FirstPvids(_, _, _, _)
\* The pvids of the lines of the set ns, from line n on, that are not in
\* seen, each once, in the order of their first line.
FirstPvids(cfgs, ns, n, seen) ==
    IF n > Len(cfgs) THEN <<>>
    ELSE IF n \in ns /\ cfgs[n][2] \notin seen
    THEN <<cfgs[n][2]>> \o FirstPvids(cfgs, ns, n + 1, seen \cup {cfgs[n][2]})
    ELSE FirstPvids(cfgs, ns, n + 1, seen)

\* The positions of the bridge-vlan calls of item m of the map.
VlanGetsOf(m) == {p \in Positions : IsCall(p, "vlan", "get") /\ calls[p].rec = m}

VlanWritesOf(m) == {p \in VlanWrites : calls[p].rec = m}

\* C22: in the VLAN pass the ids of the map, taken in order, are the pvids
\* of the lines that reached the map, each once, in the order of their
\* first line; every item the pass has gone past has exactly one get, for
\* its VLAN id, and at most one add or set, right after the get; the items
\* are visited in the order of the map; an item not yet visited has no call.
C22_VlanPassOncePerId ==
    pc \in {"vlans", "done"} =>
        LET cfgs == Cfgs
        IN /\ [m \in 1..Len(vlan_map) |-> vlan_map[m].vlan_id]
                = FirstPvids(cfgs, Appended(cfgs), 1, {})
           /\ pc = "done" => k = Len(vlan_map) + 1
           /\ \A m \in 1..Len(vlan_map) :
                IF m < k
                THEN /\ Cardinality(VlanGetsOf(m)) = 1
                     /\ \A g \in VlanGetsOf(m) :
                          /\ calls[g].args.vlan_ids = vlan_map[m].vlan_id
                          /\ VlanWritesOf(m) \subseteq {g + 1}
                          /\ \A h \in VlanGetsOf(m + 1) : g < h
                ELSE VlanGetsOf(m) \cup VlanWritesOf(m) = {}

\* A finished run whose lines name VLAN id 2 before VLAN id 1 read and
\* wrote VLAN id 2 first, then VLAN id 1.
C22_Witness ==
    /\ pc = "done"
    /\ Len(vlan_map) = 2
    /\ vlan_map[1].vlan_id = Str1("2")
    /\ vlan_map[2].vlan_id = Str1("1")
    /\ \E g \in VlanGetsOf(1), h \in VlanGetsOf(2) :
          g < h /\ VlanWritesOf(1) = {g + 1} /\ VlanWritesOf(2) = {h + 1}

\* The greatest element of a non-empty set of numbers.
Greatest(S) == CHOOSE n \in S : \A m \in S : m <= n

\* The bridge-port entries of (bridge_name, iface) when the run began.
PortEntriesAtStart(iface) ==
    SelectSeq(at_start.port,
              LAMBDA e : e.bridge = bridge_name /\ e.interface = iface)

\* C23: after the interface pass, for every interface that well-formed lines
\* name (once or several times): if a write for it returned, the first
\* bridge-port entry of the interface holds the pvid, frame-types and
\* ingress-filtering of the last line whose write returned, whatever the
\* later lines asked for; if none returned, its entries are as the run
\* found them; and the interface is in the map's list, and in every
\* untagged list sent, of the pvid of each of its lines that reached the
\* map.
C23_LastWriterWins ==
    pc \in {"vlans", "done"} =>
        LET cfgs == Cfgs
            app == Appended(cfgs)
        IN \A x \in Named(cfgs) :
              LET ws == PortWritesFor(cfgs, x)
                  es == PortEntriesOf(x)
              IN /\ IF ws = {}
                    THEN es = PortEntriesAtStart(x)
                    ELSE LET last == calls[Greatest(ws)].rec
                         IN /\ \A q \in ws : calls[q].rec <= last
                            /\ es # <<>>
                            /\ Holds(es[1], Desired(cfgs, last))
                 /\ \A n \in app :
                      cfgs[n][1] = x =>
                          /\ cfgs[n][2] \in MapIdsOf(x)
                          /\ \A p \in VlanWrites :
                                vlan_map[calls[p].rec].vlan_id = cfgs[n][2] =>
                                    x \in Elems(ListOfField(calls[p].args.untagged))

\* A finished run whose two lines name one interface with two pvids: the
\* write of the first line returned and that of the second raised, the
\* entry holds the first line's pvid, and both VLAN ids got an untagged
\* list with the interface.
C23_Witness ==
    /\ pc = "done"
    /\ Len(interface_configs) = 2
    /\ Cfgs[1][1] = Cfgs[2][1]
    /\ Cfgs[1][2] # Cfgs[2][2]
    /\ \E p, q \in Positions :
          /\ calls[p].res = "port" /\ calls[p].op # "get"
          /\ calls[p].rec = 1 /\ calls[p].ok
          /\ calls[q].res = "port" /\ calls[q].op # "get"
          /\ calls[q].rec = 2 /\ ~calls[q].ok
    /\ PortEntriesOf(Cfgs[1][1])[1].pvid = Cfgs[1][2]
    /\ WrittenIdsOf(Cfgs[1][1]) = {Cfgs[1][2], Cfgs[2][2]}

====
